---------------------------- MODULE Spec2Model ----------------------------
(***************************************************************************)
(* Master/worker coordination of es_distributed/es.py: run_master and      *)
(* run_worker exchanging Tasks and Results through the task/result         *)
(* transport (MasterClient / WorkerClient).                                *)
(*                                                                         *)
(* Conventions                                                             *)
(*   - Python's None is the empty sequence, a present optional value v is  *)
(*     the one-element sequence <<v>>.                                     *)
(*   - probabilities and float parameters are integers in hundredths       *)
(*     (eval_prob = 50 is 0.5, tslimit_incr_ratio = 200 is 2.0).           *)
(*   - RunningStat.count is kept in hundredths too, so that eps = 1e-2 is  *)
(*     the integer 1 and a count of c samples is c * CountUnit.            *)
(***************************************************************************)
EXTENDS Integers, Sequences, FiniteSets, Bags, TLC

----------------------------------------------------------------------------
(* Bounds of the model *)

\* Results the workers push in one run, and Results the master pops in one run
MaxResults == 2
\* Results the transport delivers a second time in one run
MaxDups == 1
\* length of the longest noise table a direct call of SharedNoiseTable is made on
MaxTable == 3
\* length of the longest weight and vector sequences batched_weighted_sum is called on
MaxItems == 3
\* rows of the largest N x 2 array compute_centered_ranks is called on directly
MaxPairs == 2

----------------------------------------------------------------------------
(* Optional values *)

None == << >>
Some(v) == <<v>>
Val(o) == o[1]

\* hundredths per unit of RunningStat.count (eps = 1e-2 is one hundredth)
CountUnit == 100

----------------------------------------------------------------------------
(* Configuration: exp['config'], exp['policy'] and run_worker's keyword *)

EnvDefault == [kind |-> "env_default", arg0 |-> 0, arg1 |-> 0, arg2 |-> 0]
\* 'adaptive:10,0.5,2.0'
Adaptive == [kind |-> "adaptive", arg0 |-> 10, arg1 |-> 50, arg2 |-> 200]
\* any other string
UnknownCutoff == [kind |-> "unknown", arg0 |-> 0, arg1 |-> 0, arg2 |-> 0]

ReturnProcModes == {"centered_rank", "sign", "centered_sign_rank"}

BaseConfig ==
    [episodes_per_batch  |-> 4,
     timesteps_per_batch |-> 3,
     calc_obstat_prob    |-> 100,
     eval_prob           |-> 50,
     snapshot_freq       |-> 0,
     return_proc_mode    |-> "centered_rank",
     episode_cutoff_mode |-> Adaptive,
     needs_ob_stat       |-> TRUE,
     min_task_runtime    |-> 0,
     l2coeff             |-> 0,
     env_id              |-> "early_or_full"]

\* the configurations a run is started with: the base one, and the base one
\* with its thresholds, its modes or its policy changed
Configs ==
    {[BaseConfig EXCEPT !.episodes_per_batch = e, !.timesteps_per_batch = t] :
             e \in {0, 4}, t \in {0, 3}}
    \cup {[BaseConfig EXCEPT !.return_proc_mode = "rank_sum"]}
    \cup {[BaseConfig EXCEPT !.episode_cutoff_mode = UnknownCutoff]}
    \cup {[BaseConfig EXCEPT !.episode_cutoff_mode = EnvDefault,
                             !.needs_ob_stat = FALSE, !.calc_obstat_prob = 0,
                             !.eval_prob = 0]}

Workers == {"w1", "w2"}

\* worker_id = rs.randint(2 ** 31): the ids the two workers drew
WorkerId(w) == IF w = "w1" THEN 11 ELSE 12

\* SharedNoiseTable: len(self.noise), and policy.num_params
NoiseCount == 2
NumParams == 2

\* the policy's parameters before the first update
Theta0 == [i \in 1 .. NumParams |-> 0]

\* optimizer.update(step): the optimizer moves the parameters
OptimizerUpdate(th) == [i \in DOMAIN th |-> th[i] + 1]

----------------------------------------------------------------------------
VARIABLES
    config,                 \* Config(**exp['config']) and the policy's needs_ob_stat
    noise,                  \* SharedNoiseTable.noise
    call,                   \* the last direct call of a helper: [fn, args, out]
    \* ---- run_master
    mpc,                    \* "startup", "publish", "collect", "crashed"
    error,                  \* exception that ended run_master, "" while it runs
    tslimit, adaptive_tslimit, incr_tslimit_threshold, tslimit_incr_ratio,
    theta,                  \* policy.get_trainable_flat() in the master
    g,                      \* the last gradient estimate, as the fractions num[d] / den
    step,                   \* what optimizer.update was last called with, likewise
    ob_stat,                \* the master's RunningStat
    episodes_so_far, timesteps_so_far,
    curr_task_id,
    curr_task_results, eval_rets, eval_lens, worker_ids,
    num_results_skipped, num_episodes_popped, num_timesteps_popped,
    ob_count_this_batch,
    tabular,                \* the row of the last tlogger.dump_tabular()
    files,                  \* the snapshot names that exist in tlogger.get_dir()
    saved,                  \* the snapshot names policy.save was called with, in order
    iterations,             \* completed passes of the master's while True body
    popped,                 \* (task_id, result) pairs pop_result returned this iteration
    npops,                  \* pop_result calls of the run
    npushes,                \* push_result calls of the run
    late_pushes,            \* those made under an id older than the current Task's
    ndups,                  \* deliveries that left the Result in the queue
    \* ---- transport (MasterClient / WorkerClient)
    exp_declared,           \* declare_experiment has been called
    task_counter,           \* Tasks declared so far
    current_task,           \* None or <<[id, task]>>: what get_current_task returns
    declared,               \* the [id, task] of every declare_task call, in order
    results,                \* bag of [task_id, result] in the result queue
    \* ---- run_worker, per worker process
    wpc,                    \* "start", "fetch", "fetched", "crashed"
    worker_id,
    task_id, task_data      \* what get_current_task returned at line 324

masterVars == <<mpc, error, tslimit, adaptive_tslimit, incr_tslimit_threshold,
                tslimit_incr_ratio, theta, ob_stat, episodes_so_far, timesteps_so_far,
                curr_task_id, curr_task_results, eval_rets, eval_lens, worker_ids,
                num_results_skipped, num_episodes_popped, num_timesteps_popped,
                ob_count_this_batch, tabular, iterations, popped, npops, files, saved,
                g, step>>
iterVars == <<curr_task_results, eval_rets, eval_lens, worker_ids,
              num_results_skipped, num_episodes_popped, num_timesteps_popped,
              ob_count_this_batch, popped>>
netVars == <<exp_declared, task_counter, current_task, declared, results, npushes,
             late_pushes, ndups>>
workerVars == <<wpc, worker_id, task_id, task_data>>
vars == <<config, noise, call, masterVars, netVars, workerVars>>


----------------------------------------------------------------------------
(* RunningStat (sum, sumsq and count in hundredths) *)

\* the constructor without its eps
RunningStat_Unseeded(eps) == [sum |-> 0, sumsq |-> 0, count |-> 0]

RunningStat(eps) == [sum |-> 0, sumsq |-> eps, count |-> eps]

Increment(rs, s, ssq, c) ==
    [sum |-> rs.sum + s, sumsq |-> rs.sumsq + ssq, count |-> rs.count + c]

\* sum / count, as the fraction <<numerator, denominator>>
Mean(rs) == <<rs.sum, rs.count>>

\* sqrt(max(sumsq / count - mean^2, 1e-2)), as the fraction under the root
Std(rs) ==
    LET num == rs.sumsq * rs.count - rs.sum * rs.sum
        den == rs.count * rs.count
    IN  IF num >= (den + CountUnit - 1) \div CountUnit
        THEN <<num, den>> ELSE <<1, CountUnit>>

\* eps of the master's RunningStat, 1e-2
MasterEps == 1
\* eps of a worker's per-task RunningStat, 0.
WorkerEps == 0

----------------------------------------------------------------------------
(* SharedNoiseTable *)

\* RandomState(seed).randn(count): the table's entries, all different
SeededNoise(count) == [i \in 1 .. count |-> IF i % 2 = 1 THEN i ELSE -i]

\* randint with its upper end included
SampleIndex_UpperIncluded(dim) == 0 .. (Len(noise) - dim + 1)

\* the indices stream.randint(0, len(self.noise) - dim + 1) can return
SampleIndex(dim) == 0 .. (Len(noise) - dim)

\* self.noise[i:i + dim] for i >= 0: a numpy slice stops at the end of the array
Get(i, dim) ==
    IF i + dim <= Len(noise) THEN SubSeq(noise, i + 1, i + dim)
    ELSE SubSeq(noise, i + 1, Len(noise))

----------------------------------------------------------------------------
(* The policy's rollouts: (sum of rewards, sum of reward signs, length) *)

\* the environment's own episode horizon
EnvMaxLen == 20

Min(a, b) == IF a < b THEN a ELSE b

\* a rollout stops at the timestep limit when one is given, and at the
\* environment's horizon otherwise
\* exp['env_id'] selects the environment: in "early_or_full" an episode ends
\* after one step with reward 1 or runs to the limit with reward -1, in "full"
\* every episode runs to the limit with reward 1 or -1, in "still" every
\* episode runs to the limit without reward
Rollouts(timestep_limit) ==
    LET L == IF timestep_limit = None THEN EnvMaxLen
             ELSE Min(Val(timestep_limit), EnvMaxLen)
    IN  CASE config.env_id = "early_or_full" ->
                 {[ret |-> 1, sret |-> 1, len |-> 1], [ret |-> -1, sret |-> -1, len |-> L]}
          [] config.env_id = "full" ->
                 {[ret |-> 1, sret |-> 1, len |-> L], [ret |-> -1, sret |-> -1, len |-> L]}
          [] config.env_id = "still" ->
                 {[ret |-> 0, sret |-> 0, len |-> L]}

\* a noiseless evaluation episode runs to the environment's horizon
EvalRollouts == {[ret |-> 1, sret |-> 1, len |-> EnvMaxLen]}

\* value of every recorded observation
ObValue == 2

----------------------------------------------------------------------------
(* Sequence helpers *)

RECURSIVE SumSeq(_)
SumSeq(s) == IF s = << >> THEN 0 ELSE Head(s) + SumSeq(Tail(s))

RECURSIVE Concat(_)
\* np.concatenate of a list of arrays
Concat(ss) == IF ss = << >> THEN << >> ELSE Head(ss) \o Concat(Tail(ss))

Range(s) == {s[i] : i \in DOMAIN s}

\* lengths_n2.sum() of a list of (pos, neg) pairs
PairsSum(pairs) == SumSeq([i \in DOMAIN pairs |-> pairs[i][1] + pairs[i][2]])

\* lengths_n2.size
PairsSize(pairs) == 2 * Len(pairs)

----------------------------------------------------------------------------
(* compute_ranks and compute_centered_ranks, lines 69-84 *)

\* x.ravel() of an N x 2 array, and its inverse reshape
Ravel(x) == Concat([j \in DOMAIN x |-> <<x[j][1], x[j][2]>>])
Reshape(flat) == [j \in 1 .. (Len(flat) \div 2) |-> <<flat[2 * j - 1], flat[2 * j]>>]

RECURSIVE ArgsortOf(_, _)
\* the orders the positions left can be listed in by ascending value of x
ArgsortOf(x, left) ==
    IF left = {} THEN {<< >>}
    ELSE LET lowest == {i \in left : \A k \in left : x[i] <= x[k]} IN
         UNION {{<<i>> \o p : p \in ArgsortOf(x, left \ {i})} : i \in lowest}

\* x.argsort(): the positions of x listed by ascending value (counted from 1);
\* equal values come in an order the sort does not promise
Argsort(x) == ArgsortOf(x, DOMAIN x)

\* the argsort positions taken for the ranks
ComputeRanks_OfPositions(x) ==
    {[i \in DOMAIN x |-> p[i] - 1] : p \in Argsort(x)}

\* lines 74-77: ranks[x.argsort()] = np.arange(len(x))
ComputeRanks(x) ==
    {[i \in DOMAIN x |-> (CHOOSE k \in DOMAIN p : p[k] = i) - 1] : p \in Argsort(x)}

\* the ranks divided by x.size
ComputeCenteredRanks_BySize(x) ==
    {[num |-> Reshape([i \in DOMAIN ranks |-> 2 * ranks[i] - 2 * Len(x)]),
      den |-> 2 * (2 * Len(x))] : ranks \in ComputeRanks(Ravel(x))}

\* lines 80-84: y = ranks / (x.size - 1) - .5 for x of more than one element,
\* as the fractions num[j][k] / den
ComputeCenteredRanks(x) ==
    {[num |-> Reshape([i \in DOMAIN ranks |-> 2 * ranks[i] - (2 * Len(x) - 1)]),
      den |-> 2 * (2 * Len(x) - 1)] : ranks \in ComputeRanks(Ravel(x))}

\* the difference taken the other way round
PairWeights_NegMinusPos(proc_returns_n2) ==
    [j \in DOMAIN proc_returns_n2.num |->
        proc_returns_n2.num[j][2] - proc_returns_n2.num[j][1]]

\* line 242: proc_returns_n2[:, 0] - proc_returns_n2[:, 1], over the same den
PairWeights(proc_returns_n2) ==
    [j \in DOMAIN proc_returns_n2.num |->
        proc_returns_n2.num[j][1] - proc_returns_n2.num[j][2]]

----------------------------------------------------------------------------
(* itergroups and batched_weighted_sum, lines 94-113 *)

RECURSIVE ItergroupsFrom(_, _, _)
\* lines 97-103: the groups yielded for the items left, group being the open one
ItergroupsFrom(items, group_size, group) ==
    IF items = << >>
    THEN IF group # << >> THEN <<group>> ELSE << >>
    ELSE LET grown == Append(group, Head(items)) IN
         IF Len(grown) = group_size
         THEN <<grown>> \o ItergroupsFrom(Tail(items), group_size, << >>)
         ELSE ItergroupsFrom(Tail(items), group_size, grown)

\* the trailing group of fewer than group_size items is not yielded
Itergroups_FullGroupsOnly(items, group_size) ==
    SelectSeq(ItergroupsFrom(items, group_size, << >>), LAMBDA grp : Len(grp) = group_size)

Itergroups(items, group_size) == ItergroupsFrom(items, group_size, << >>)

\* np.dot of a weight vector with a matrix whose rows are vecs
Dot(batch_weights, batch_vecs) ==
    [d \in DOMAIN batch_vecs[1] |->
        SumSeq([j \in DOMAIN batch_weights |-> batch_weights[j] * batch_vecs[j][d]])]

\* total = 0. before the first batch, written as the array without entries
ZeroTotal == << >>

\* total += ...: the float 0. plus an array is the array
AddTo(total, v) == IF total = ZeroTotal THEN v ELSE [d \in DOMAIN v |-> total[d] + v[d]]

RECURSIVE SumBatches(_, _, _, _)
\* lines 109-112: the loop over zip(itergroups(weights), itergroups(vecs))
SumBatches(wgroups, vgroups, total, num_items_summed) ==
    IF wgroups = << >> \/ vgroups = << >>
    THEN [total |-> total, num_items_summed |-> num_items_summed]
    ELSE SumBatches(Tail(wgroups), Tail(vgroups),
                    AddTo(total, Dot(Head(wgroups), Head(vgroups))),
                    num_items_summed + Len(Head(wgroups)))

\* lines 106-113; itergroups asserts group_size >= 1
BatchedWeightedSum(weights, vecs, batch_size) ==
    IF batch_size < 1 THEN "AssertionError"
    ELSE SumBatches(Itergroups(weights, batch_size), Itergroups(vecs, batch_size), ZeroTotal, 0)

----------------------------------------------------------------------------
(* Initial state: run_master and every run_worker are about to start *)

NoTabular == [dumped |-> FALSE]

\* id of the first declared Task
TaskIdBase == 0

InitFor(configs) ==
    /\ config \in configs
    /\ mpc = "startup"
    /\ error = ""
    /\ tslimit = None
    /\ adaptive_tslimit = FALSE
    /\ incr_tslimit_threshold = None
    /\ tslimit_incr_ratio = None
    /\ theta = Theta0
    /\ saved = << >>
    /\ g = None
    /\ step = None
    /\ ob_stat = RunningStat(MasterEps)
    /\ episodes_so_far = 0
    /\ timesteps_so_far = 0
    /\ curr_task_id = None
    /\ curr_task_results = << >>
    /\ eval_rets = << >>
    /\ eval_lens = << >>
    /\ worker_ids = << >>
    /\ num_results_skipped = 0
    /\ num_episodes_popped = 0
    /\ num_timesteps_popped = 0
    /\ ob_count_this_batch = 0
    /\ tabular = NoTabular
    /\ iterations = 0
    /\ popped = << >>
    /\ npops = 0
    /\ exp_declared = FALSE
    /\ task_counter = 0
    /\ current_task = None
    /\ declared = << >>
    /\ results = EmptyBag
    /\ npushes = 0
    /\ late_pushes = 0
    /\ ndups = 0
    /\ wpc = [w \in Workers |-> "start"]
    /\ worker_id = [w \in Workers |-> WorkerId(w)]
    /\ task_id = [w \in Workers |-> None]
    /\ task_data = [w \in Workers |-> None]

NoCall == [fn |-> "", args |-> << >>, out |-> << >>]

\* the table SharedNoiseTable() samples, and no helper called directly
ProgramTable == noise = SeededNoise(NoiseCount) /\ call = NoCall

Init == InitFor(Configs) /\ ProgramTable /\ files = {}

\* runs whose workers stop after one pair, or keep rolling for two clock ticks
RuntimeConfigs ==
    {[BaseConfig EXCEPT !.min_task_runtime = 0, !.env_id = "full"],
     [BaseConfig EXCEPT !.min_task_runtime = 2, !.env_id = "still"]}

InitRuntime == InitFor(RuntimeConfigs) /\ ProgramTable /\ files = {}

\* runs that snapshot every second iteration, or never, each of one Result per
\* iteration; the log directory is empty or holds a snapshot of an earlier run
SnapshotConfigs ==
    {[BaseConfig EXCEPT !.episodes_per_batch = 0, !.snapshot_freq = f] : f \in {0, 2}}

LogDirs == {{}, {[iter |-> TaskIdBase, rew |-> None]}}

\* the run of one pair per iteration: episodes_per_batch = 2,
\* timesteps_per_batch = 0, l2coeff = 0, centered ranks, episodes that run to
\* the limit
EndToEndConfigs ==
    {[BaseConfig EXCEPT !.episodes_per_batch = 2, !.timesteps_per_batch = 0,
                        !.env_id = "full"]}

InitEndToEnd == InitFor(EndToEndConfigs) /\ ProgramTable /\ files = {}

\* runs with positive thresholds whose workers only roll out with noise, or
\* only evaluate
LiveConfigs == {[BaseConfig EXCEPT !.eval_prob = p] : p \in {0, CountUnit}}

InitLive == InitFor(LiveConfigs) /\ ProgramTable /\ files = {}

InitSnapshot ==
    /\ InitFor(SnapshotConfigs)
    /\ ProgramTable
    /\ files \in IF config.snapshot_freq = 0 THEN {{}} ELSE LogDirs

----------------------------------------------------------------------------
(* Transport: MasterClient / WorkerClient *)

\* declare_task: the id handed to the next Task
NextTaskId == TaskIdBase + task_counter

\* pop_result delivers any queued result; a delivered result may be delivered again
Delivered(m, again) == IF again THEN results ELSE results (-) SetToBag({m})

\* push_result
Pushed(m) == results (+) SetToBag({m})

\* the push counters after a push under task id tid
CountPush(tid) ==
    /\ npushes' = npushes + 1
    /\ late_pushes' = IF tid < Val(current_task).id THEN late_pushes + 1 ELSE late_pushes

MayPush == npushes < MaxResults

----------------------------------------------------------------------------
(* run_master *)

Crash(exc) ==
    /\ mpc' = "crashed"
    /\ error' = exc

\* lines 148-165: parse episode_cutoff_mode, then declare_experiment
MasterStartup ==
    /\ mpc = "startup"
    /\ LET mode == config.episode_cutoff_mode IN
       IF mode.kind = "adaptive"
       THEN /\ tslimit' = Some(mode.arg0)
            /\ incr_tslimit_threshold' = Some(mode.arg1)
            /\ tslimit_incr_ratio' = Some(mode.arg2)
            /\ adaptive_tslimit' = TRUE
            /\ exp_declared' = TRUE
            /\ mpc' = "publish"
            /\ UNCHANGED error
       ELSE IF mode.kind = "env_default"
       THEN /\ tslimit' = None
            /\ incr_tslimit_threshold' = None
            /\ tslimit_incr_ratio' = None
            /\ adaptive_tslimit' = FALSE
            /\ exp_declared' = TRUE
            /\ mpc' = "publish"
            /\ UNCHANGED error
       ELSE /\ Crash("NotImplementedError")
            /\ UNCHANGED <<tslimit, incr_tslimit_threshold, tslimit_incr_ratio,
                           adaptive_tslimit, exp_declared>>
    /\ UNCHANGED <<config, noise, call, files, saved, g, step, theta, ob_stat, episodes_so_far, timesteps_so_far,
                   curr_task_id, iterVars, tabular, iterations, npops,
                   task_counter, current_task, declared, results, npushes,
                   late_pushes, ndups, workerVars>>

\* the Task of lines 172-177
NewTask ==
    [params         |-> theta,
     ob_mean        |-> IF config.needs_ob_stat THEN Some(Mean(ob_stat)) ELSE None,
     ob_std         |-> IF config.needs_ob_stat THEN Some(Std(ob_stat)) ELSE None,
     timestep_limit |-> tslimit]

\* lines 168-182: declare the Task of this iteration, reset the batch
MasterPublish ==
    /\ mpc = "publish"
    /\ curr_task_id' = Some(NextTaskId)
    /\ current_task' = Some([id |-> NextTaskId, task |-> NewTask])
    /\ declared' = Append(declared, [id |-> NextTaskId, task |-> NewTask])
    /\ task_counter' = task_counter + 1
    /\ curr_task_results' = << >>
    /\ eval_rets' = << >>
    /\ eval_lens' = << >>
    /\ worker_ids' = << >>
    \* g and step are not read again before line 241 assigns them anew
    /\ g' = None
    /\ step' = None
    /\ num_results_skipped' = 0
    /\ num_episodes_popped' = 0
    /\ num_timesteps_popped' = 0
    /\ ob_count_this_batch' = 0
    /\ popped' = << >>
    /\ mpc' = "collect"
    /\ UNCHANGED <<config, noise, call, files, saved, error, tslimit, adaptive_tslimit, incr_tslimit_threshold,
                   tslimit_incr_ratio, theta, ob_stat, episodes_so_far,
                   timesteps_so_far, tabular, iterations, npops,
                   exp_declared, results, npushes, late_pushes, ndups, workerVars>>

\* the loop condition with "and" for "or"
CollectMore_UntilEither ==
    /\ num_episodes_popped < config.episodes_per_batch
    /\ num_timesteps_popped < config.timesteps_per_batch

\* line 183: the condition of the collecting loop
CollectMore ==
    \/ num_episodes_popped < config.episodes_per_batch
    \/ num_timesteps_popped < config.timesteps_per_batch

\* the comparison dropped: every Result counts for the current task
ForCurrentTask_Always(tid) == TRUE

\* the comparison loosened: a Result of an older task counts for the current task
ForCurrentTask_OrOlder(tid) == curr_task_id # None /\ tid <= Val(curr_task_id)

\* no Result counts for the current task
ForCurrentTask_Never(tid) == FALSE

\* lines 195, 209: task_id == curr_task_id
ForCurrentTask(tid) == curr_task_id = Some(tid)

\* line 190
IsEval(result) == result.eval_length # None

\* line 187
EvalFieldsAgree(result) == (result.eval_return = None) = (result.eval_length = None)

\* lines 200-202
NoiseShapeOk(result) ==
    /\ result.noise_inds_n # None
    /\ result.returns_n2 # None
    /\ result.lengths_n2 # None
    /\ Len(Val(result.returns_n2)) = Len(Val(result.noise_inds_n))
    /\ Len(Val(result.lengths_n2)) = Len(Val(result.noise_inds_n))

\* lines 213-216: the observation statistics after a current-task noise result
ObStatAfter(result) ==
    IF config.needs_ob_stat /\ result.ob_count > 0
    THEN Increment(ob_stat, Val(result.ob_sum), Val(result.ob_sumsq), result.ob_count)
    ELSE ob_stat

ObCountAfter(result) ==
    IF config.needs_ob_stat /\ result.ob_count > 0
    THEN ob_count_this_batch + result.ob_count
    ELSE ob_count_this_batch

\* the skip counter left alone
SkippedAfterNoise_Never(tid) == num_results_skipped

\* lines 217-218: the skip counter after a noise result tagged tid
SkippedAfterNoise(tid) ==
    IF ForCurrentTask(tid) THEN num_results_skipped ELSE num_results_skipped + 1

\* lines 183-218: one pass of the collecting loop
MasterPop ==
    /\ mpc = "collect"
    /\ CollectMore
    /\ npops < MaxResults
    /\ \E m \in BagToSet(results), again \in {b \in BOOLEAN : b => ndups < MaxDups} :
       LET tid == m.task_id
           result == m.result
       IN
       /\ results' = Delivered(m, again)
       /\ ndups' = IF again THEN ndups + 1 ELSE ndups
       /\ popped' = Append(popped, m)
       /\ npops' = npops + 1
       /\ IF ~EvalFieldsAgree(result)
          THEN /\ Crash("AssertionError")
               /\ UNCHANGED <<worker_ids, episodes_so_far, timesteps_so_far, eval_rets,
                              eval_lens, curr_task_results, num_episodes_popped,
                              num_timesteps_popped, ob_stat, ob_count_this_batch,
                              num_results_skipped>>
          ELSE IF IsEval(result)
          THEN /\ worker_ids' = Append(worker_ids, result.worker_id)
               /\ episodes_so_far' = episodes_so_far + 1
               /\ timesteps_so_far' = timesteps_so_far + Val(result.eval_length)
               /\ IF ForCurrentTask(tid)
                  THEN /\ eval_rets' = Append(eval_rets, Val(result.eval_return))
                       /\ eval_lens' = Append(eval_lens, Val(result.eval_length))
                  ELSE UNCHANGED <<eval_rets, eval_lens>>
               /\ UNCHANGED <<mpc, error, curr_task_results, num_episodes_popped,
                              num_timesteps_popped, ob_stat, ob_count_this_batch,
                              num_results_skipped>>
          ELSE IF ~NoiseShapeOk(result)
          THEN /\ worker_ids' = Append(worker_ids, result.worker_id)
               /\ Crash("AssertionError")
               /\ UNCHANGED <<episodes_so_far, timesteps_so_far, eval_rets,
                              eval_lens, curr_task_results, num_episodes_popped,
                              num_timesteps_popped, ob_stat, ob_count_this_batch,
                              num_results_skipped>>
          ELSE LET result_num_eps == PairsSize(Val(result.lengths_n2))
                   result_num_timesteps == PairsSum(Val(result.lengths_n2))
               IN
               /\ worker_ids' = Append(worker_ids, result.worker_id)
               /\ episodes_so_far' = episodes_so_far + result_num_eps
               /\ timesteps_so_far' = timesteps_so_far + result_num_timesteps
               /\ num_results_skipped' = SkippedAfterNoise(tid)
               /\ IF ForCurrentTask(tid)
                  THEN /\ curr_task_results' = Append(curr_task_results, result)
                       /\ num_episodes_popped' = num_episodes_popped + result_num_eps
                       /\ num_timesteps_popped' =
                              num_timesteps_popped + result_num_timesteps
                       /\ ob_stat' = ObStatAfter(result)
                       /\ ob_count_this_batch' = ObCountAfter(result)
                  ELSE UNCHANGED <<curr_task_results, num_episodes_popped,
                                   num_timesteps_popped, ob_stat, ob_count_this_batch>>
               /\ UNCHANGED <<mpc, error, eval_rets, eval_lens>>
    /\ UNCHANGED <<config, noise, call, files, saved, g, step, tslimit, adaptive_tslimit, incr_tslimit_threshold,
                   tslimit_incr_ratio, theta, curr_task_id, tabular, iterations,
                   exp_declared, task_counter, current_task, declared, npushes,
                   late_pushes, workerVars>>

\* the (pos, neg) length pairs of the accepted results, concatenated (line 229)
LengthsN2 == Concat([i \in DOMAIN curr_task_results |-> Val(curr_task_results[i].lengths_n2)])

\* the same array flattened
FlatLengths == Concat([i \in DOMAIN LengthsN2 |-> <<LengthsN2[i][1], LengthsN2[i][2]>>])

\* number of entries of a sequence equal to v
CountEq(s, v) == Cardinality({i \in DOMAIN s : s[i] = v})

\* line 255: (lengths_n2 == tslimit).mean() >= incr_tslimit_threshold
LimitHitOften(lens) ==
    CountUnit * CountEq(lens, Val(tslimit)) >= Val(incr_tslimit_threshold) * Len(lens)

\* the limit raised only when the fraction is above the threshold
NextTslimit_Strict(lens) ==
    IF adaptive_tslimit
       /\ CountUnit * CountEq(lens, Val(tslimit)) > Val(incr_tslimit_threshold) * Len(lens)
    THEN Some((Val(tslimit_incr_ratio) * Val(tslimit)) \div CountUnit)
    ELSE tslimit

\* lines 255-258: the timestep limit of the next Task
NextTslimit(lens) ==
    IF adaptive_tslimit /\ LimitHitOften(lens)
    THEN Some((Val(tslimit_incr_ratio) * Val(tslimit)) \div CountUnit)
    ELSE tslimit

\* the loop returning to the collecting loop, past declare_task
LoopTop_PastDeclare == "collect"

\* line 167: the loop returns to its first statement
LoopTop == "publish"

\* lines 261-289: the row handed to dump_tabular (fractions as <<num, den>>)
Tabular ==
    [dumped             |-> TRUE,
     task               |-> Val(curr_task_id),
     EpLenMean          |-> <<SumSeq(FlatLengths), Len(FlatLengths)>>,
     EvalEpCount        |-> Len(eval_rets),
     EpisodesThisIter   |-> Len(FlatLengths),
     EpisodesSoFar      |-> episodes_so_far,
     TimestepsThisIter  |-> SumSeq(FlatLengths),
     TimestepsSoFar     |-> timesteps_so_far,
     UniqueWorkers      |-> Cardinality(Range(worker_ids)),
     UniqueWorkersFrac  |-> <<Cardinality(Range(worker_ids)), Len(worker_ids)>>,
     ResultsSkippedFrac |-> <<num_results_skipped,
                              num_results_skipped + Len(curr_task_results)>>,
     ObCount            |-> ob_count_this_batch]

\* lines 227-228 and 235: the arrays of the accepted results, concatenated
NoiseIndsN == Concat([i \in DOMAIN curr_task_results |-> Val(curr_task_results[i].noise_inds_n)])
ReturnsN2 == Concat([i \in DOMAIN curr_task_results |-> Val(curr_task_results[i].returns_n2)])
SignReturnsN2 ==
    Concat([i \in DOMAIN curr_task_results |-> Val(curr_task_results[i].signreturns_n2)])

\* lines 232-237: the processed returns return_proc_mode can give
ProcReturnsN2 ==
    CASE config.return_proc_mode = "centered_rank" -> ComputeCenteredRanks(ReturnsN2)
      [] config.return_proc_mode = "sign" -> {[num |-> SignReturnsN2, den |-> 1]}
      [] config.return_proc_mode = "centered_sign_rank" ->
             ComputeCenteredRanks(SignReturnsN2)

\* line 244
GradBatchSize == 500

\* lines 241-246: g = batched_weighted_sum(...)[0] / returns_n2.size
Gradient(proc_returns_n2) ==
    LET summed == BatchedWeightedSum(
                      PairWeights(proc_returns_n2),
                      [j \in DOMAIN NoiseIndsN |-> Get(NoiseIndsN[j], NumParams)],
                      GradBatchSize)
    IN  [num   |-> summed.total,
         den   |-> proc_returns_n2.den * PairsSize(ReturnsN2),
         count |-> summed.num_items_summed]

\* line 247
GradientShapeOk(grad) == Len(grad.num) = NumParams /\ grad.count = Len(NoiseIndsN)

\* line 248: -g + config.l2coeff * theta, l2coeff in hundredths
OptimizerStep(grad) ==
    [num |-> [d \in DOMAIN grad.num |->
                 -CountUnit * grad.num[d] + config.l2coeff * theta[d] * grad.den],
     den |-> CountUnit * grad.den]

\* int(x / y) for y > 0: the quotient cut towards zero
IntOfQuotient(x, y) == IF x >= 0 THEN x \div y ELSE -((-x) \div y)

\* a snapshot at every iteration
SnapshotDue_EveryIteration == config.snapshot_freq # 0

\* line 291
SnapshotDue ==
    /\ config.snapshot_freq # 0
    /\ Val(curr_task_id) % config.snapshot_freq = 0

\* lines 293-296: snapshot_iter{curr_task_id}_rew{nan or int(mean(eval_rets))}
SnapshotName ==
    [iter |-> Val(curr_task_id),
     rew  |-> IF eval_rets = << >> THEN None
              ELSE Some(IntOfQuotient(SumSeq(eval_rets), Len(eval_rets)))]

\* lines 220-299: aggregate the batch, step the optimizer, adapt the limit, log,
\* snapshot
MasterFinish ==
    /\ mpc = "collect"
    /\ ~CollectMore
    /\ IF num_results_skipped + Len(curr_task_results) = 0
       THEN \* line 221 divides by zero
            /\ Crash("ZeroDivisionError")
            /\ UNCHANGED <<theta, tslimit, tabular, iterations, files, saved, g, step>>
       ELSE IF config.return_proc_mode \notin ReturnProcModes
       THEN \* line 239
            /\ Crash("NotImplementedError")
            /\ UNCHANGED <<theta, tslimit, tabular, iterations, files, saved, g, step>>
       ELSE \E grad \in {Gradient(proc_returns_n2) : proc_returns_n2 \in ProcReturnsN2} :
            /\ g' = [num |-> grad.num, den |-> grad.den]
            /\ IF ~GradientShapeOk(grad)
               THEN \* line 247
                    /\ Crash("AssertionError")
                    /\ UNCHANGED <<theta, tslimit, tabular, iterations, files, saved, step>>
               ELSE /\ step' = OptimizerStep(grad)
                    /\ theta' = OptimizerUpdate(theta)
                    /\ tslimit' = NextTslimit(FlatLengths)
                    /\ tabular' = Tabular
                    /\ IF SnapshotDue /\ SnapshotName \in files
                       THEN \* line 297
                            /\ Crash("AssertionError")
                            /\ UNCHANGED <<iterations, files, saved>>
                       ELSE /\ IF SnapshotDue
                               THEN /\ files' = files \cup {SnapshotName}
                                    /\ saved' = Append(saved, SnapshotName)
                               ELSE UNCHANGED <<files, saved>>
                            /\ iterations' = iterations + 1
                            /\ mpc' = LoopTop
                            /\ UNCHANGED error
    /\ UNCHANGED <<config, noise, call, adaptive_tslimit, incr_tslimit_threshold,
                   tslimit_incr_ratio, ob_stat, episodes_so_far, timesteps_so_far,
                   curr_task_id, iterVars, npops, netVars, workerVars>>

----------------------------------------------------------------------------
(* run_worker *)

\* lines 313-321
WorkerStart(w) ==
    /\ wpc[w] = "start"
    /\ exp_declared
    /\ wpc' = [wpc EXCEPT ![w] =
                  IF config.needs_ob_stat = (config.calc_obstat_prob # 0)
                  THEN "fetch" ELSE "crashed"]
    /\ UNCHANGED <<config, noise, call, masterVars, netVars, worker_id, task_id, task_data>>

\* lines 324-328: read the current Task
WorkerFetch(w) ==
    /\ wpc[w] = "fetch"
    /\ current_task # None
    /\ task_id' = [task_id EXCEPT ![w] = Some(Val(current_task).id)]
    /\ task_data' = [task_data EXCEPT ![w] = Some(Val(current_task).task)]
    /\ wpc' = [wpc EXCEPT ![w] = "fetched"]
    /\ UNCHANGED <<config, noise, call, masterVars, netVars, worker_id>>

\* the tag read again from the transport at the push
ResultTag_Reread(w) == Val(current_task).id

\* the task id a worker's Result is pushed under (lines 336, 370)
ResultTag(w) == Val(task_id[w])

\* an eval Result without its length
EvalResult_NoLength(w, eval_return, eval_length) ==
    [worker_id      |-> worker_id[w],
     noise_inds_n   |-> None,
     returns_n2     |-> None,
     signreturns_n2 |-> None,
     lengths_n2     |-> None,
     eval_return    |-> Some(eval_return),
     eval_length    |-> None,
     ob_sum         |-> None,
     ob_sumsq       |-> None,
     ob_count       |-> None]

\* lines 336-347
EvalResult(w, eval_return, eval_length) ==
    [worker_id      |-> worker_id[w],
     noise_inds_n   |-> None,
     returns_n2     |-> None,
     signreturns_n2 |-> None,
     lengths_n2     |-> None,
     eval_return    |-> Some(eval_return),
     eval_length    |-> Some(eval_length),
     ob_sum         |-> None,
     ob_sumsq       |-> None,
     ob_count       |-> None]

\* lines 330-347: rs.rand() < eval_prob, one noiseless rollout without the
\* task's timestep limit, pushed as an eval Result
WorkerEval(w) ==
    /\ wpc[w] = "fetched"
    /\ config.eval_prob > 0
    /\ MayPush
    /\ \E ro \in EvalRollouts :
          results' = Pushed([task_id |-> ResultTag(w),
                             result  |-> EvalResult(w, ro.ret, ro.len)])
    /\ CountPush(ResultTag(w))
    /\ wpc' = [wpc EXCEPT ![w] = "fetch"]
    /\ UNCHANGED <<config, noise, call, masterVars, exp_declared, task_counter, current_task,
                   declared, ndups, worker_id, task_id, task_data>>

\* lines 350-351: the locals of the noise branch, and the clock since task_tstart
NoRollouts ==
    [noise_inds   |-> << >>,
     returns      |-> << >>,
     signreturns  |-> << >>,
     lengths      |-> << >>,
     task_ob_stat |-> RunningStat(WorkerEps),
     elapsed      |-> 0]

\* the loop condition without "not noise_inds"
KeepRolling_ClockOnly(st) == st.elapsed < config.min_task_runtime

\* line 353: not noise_inds or time.time() - task_tstart < min_task_runtime
KeepRolling(st) ==
    \/ st.noise_inds = << >>
    \/ st.elapsed < config.min_task_runtime

\* clock ticks an antithetic pair of rollouts can take
PairTicks == {1, 2}

\* line 303: whether a rollout may record its observations / may not
MaySaveObs == config.needs_ob_stat /\ config.calc_obstat_prob # 0
MaySkipObs == ~config.needs_ob_stat \/ config.calc_obstat_prob < CountUnit
SaveObsChoices == {b \in BOOLEAN : IF b THEN MaySaveObs ELSE MaySkipObs}

\* lines 302-309: task_ob_stat after one rollout of length len
ObStatAfterRollout(rs, save_obs, len) ==
    IF save_obs
    THEN Increment(rs, CountUnit * ObValue * len, CountUnit * ObValue * ObValue * len,
                   CountUnit * len)
    ELSE rs

\* what one pass of the rollout loop can draw
PairChoices(timestep_limit) ==
    [noise_idx : SampleIndex(NumParams),
     pos       : Rollouts(timestep_limit),
     neg       : Rollouts(timestep_limit),
     save_pos  : SaveObsChoices,
     save_neg  : SaveObsChoices,
     ticks     : PairTicks]

\* lines 354-368: one antithetic pair
RolloutPair(st, c) ==
    [noise_inds   |-> Append(st.noise_inds, c.noise_idx),
     returns      |-> Append(st.returns, <<c.pos.ret, c.neg.ret>>),
     signreturns  |-> Append(st.signreturns, <<c.pos.sret, c.neg.sret>>),
     lengths      |-> Append(st.lengths, <<c.pos.len, c.neg.len>>),
     task_ob_stat |-> ObStatAfterRollout(
                          ObStatAfterRollout(st.task_ob_stat, c.save_pos, c.pos.len),
                          c.save_neg, c.neg.len),
     elapsed      |-> Min(st.elapsed + c.ticks, config.min_task_runtime)]

RECURSIVE RolloutLoop(_, _)
\* lines 353-368: the states the while loop can end in, started in st
RolloutLoop(st, timestep_limit) ==
    IF KeepRolling(st)
    THEN UNION {RolloutLoop(RolloutPair(st, c), timestep_limit) :
                   c \in PairChoices(timestep_limit)}
    ELSE {st}

\* lines 370-381
NoiseResult(w, st) ==
    [worker_id      |-> worker_id[w],
     noise_inds_n   |-> Some(st.noise_inds),
     returns_n2     |-> Some(st.returns),
     signreturns_n2 |-> Some(st.signreturns),
     lengths_n2     |-> Some(st.lengths),
     eval_return    |-> None,
     eval_length    |-> None,
     ob_sum         |-> IF st.task_ob_stat.count = 0 THEN None
                        ELSE Some(st.task_ob_stat.sum),
     ob_sumsq       |-> IF st.task_ob_stat.count = 0 THEN None
                        ELSE Some(st.task_ob_stat.sumsq),
     ob_count       |-> st.task_ob_stat.count]

\* lines 349-381: the rollouts with noise, pushed as a noise Result
WorkerNoise(w) ==
    /\ wpc[w] = "fetched"
    /\ config.eval_prob < CountUnit
    /\ MayPush
    /\ \E st \in RolloutLoop(NoRollouts, Val(task_data[w]).timestep_limit) :
          results' = Pushed([task_id |-> ResultTag(w), result |-> NoiseResult(w, st)])
    /\ CountPush(ResultTag(w))
    /\ wpc' = [wpc EXCEPT ![w] = "fetch"]
    /\ UNCHANGED <<config, noise, call, masterVars, exp_declared, task_counter, current_task,
                   declared, ndups, worker_id, task_id, task_data>>

----------------------------------------------------------------------------
Next ==
    \/ MasterStartup
    \/ MasterPublish
    \/ MasterPop
    \/ MasterFinish
    \/ \E w \in Workers : WorkerStart(w)
    \/ \E w \in Workers : WorkerFetch(w)
    \/ \E w \in Workers : WorkerEval(w)
    \/ \E w \in Workers : WorkerNoise(w)

Spec == Init /\ [][Next]_vars

SpecRuntime == InitRuntime /\ [][Next]_vars

SpecSnapshot == InitSnapshot /\ [][Next]_vars

SpecEndToEnd == InitEndToEnd /\ [][Next]_vars

\* lines 183 and 221-299 as the scheduler sees them: once the condition of the
\* collecting loop is false the master runs on to the top of `while True` or
\* to an exception; MasterFinish is the one action of Next that takes this step
MasterLeavesCollect ==
    /\ mpc = "collect"
    /\ ~CollectMore
    /\ mpc' \in {LoopTop, "crashed"}

\* the master process and every worker process keep being scheduled, and
\* pop_result returns whenever the queue holds a Result
SpecLive ==
    /\ InitLive
    /\ [][Next]_vars
    /\ WF_vars(MasterStartup \/ MasterPublish \/ MasterPop)
    /\ WF_mpc(MasterLeavesCollect)
    /\ \A w \in Workers :
          WF_vars(WorkerStart(w) \/ WorkerFetch(w) \/ WorkerEval(w) \/ WorkerNoise(w))

----------------------------------------------------------------------------
(* One direct call of a helper, on a table or on arrays of every small shape *)

programVars == <<config, masterVars, netVars, workerVars>>

InitCalls ==
    /\ InitFor({BaseConfig})
    /\ files = {}
    /\ noise \in {SeededNoise(n) : n \in 0 .. MaxTable}
    /\ call = NoCall

\* noise.sample_index(rs, dim); randint raises ValueError when its range is empty
CallSampleIndex ==
    /\ call = NoCall
    /\ \E dim \in 0 .. (MaxTable + 1) :
          IF SampleIndex(dim) = {}
          THEN call' = [fn |-> "sample_index", args |-> <<dim>>, out |-> "ValueError"]
          ELSE \E i \in SampleIndex(dim) :
                  call' = [fn |-> "sample_index", args |-> <<dim>>, out |-> i]
    /\ UNCHANGED <<noise, programVars>>

\* noise.get(i, dim)
CallGet ==
    /\ call = NoCall
    /\ \E i \in 0 .. (MaxTable + 1), dim \in 0 .. (MaxTable + 1) :
          call' = [fn |-> "get", args |-> <<i, dim>>, out |-> Get(i, dim)]
    /\ UNCHANGED <<noise, programVars>>

\* the sequences of length n over the set S
SeqsOf(S, n) == [1 .. n -> S]

CallWeights == {-1, 1, 2}
CallVecs == {<<1, 0>>, <<1, -2>>}
\* batch sizes up to one past the longest input, and 7
BatchSizes == (1 .. (MaxItems + 1)) \cup {7}

\* batched_weighted_sum(weights, vecs, batch_size) on sequences of equal length
CallBatchedWeightedSum ==
    /\ call = NoCall
    /\ \E n \in 0 .. MaxItems, batch_size \in BatchSizes :
          \E weights \in SeqsOf(CallWeights, n), vecs \in SeqsOf(CallVecs, n) :
              call' = [fn   |-> "batched_weighted_sum",
                       args |-> <<weights, vecs, batch_size>>,
                       out  |-> BatchedWeightedSum(weights, vecs, batch_size)]
    /\ UNCHANGED <<noise, programVars>>

CallReturns == {-1, 0, 1}

\* compute_centered_ranks(x) on an N x 2 array, N >= 1
CallComputeCenteredRanks ==
    /\ call = NoCall
    /\ \E n \in 1 .. MaxPairs :
          \E x \in SeqsOf(SeqsOf(CallReturns, 2), n) :
              \E y \in ComputeCenteredRanks(x) :
                  call' = [fn |-> "compute_centered_ranks", args |-> <<x>>, out |-> y]
    /\ UNCHANGED <<noise, programVars>>

NextCalls ==
    \/ CallSampleIndex
    \/ CallGet
    \/ CallBatchedWeightedSum
    \/ CallComputeCenteredRanks

SpecCalls == InitCalls /\ [][NextCalls]_vars

----------------------------------------------------------------------------
(* Properties *)

Last(s) == s[Len(s)]

\* the master has just popped a Result (one pass of the collecting loop ran)
JustPopped == npops' = npops + 1

\* episodes and timesteps a Result reports
ResultEpisodes(result) ==
    IF result.eval_length # None THEN 1 ELSE 2 * Len(Val(result.lengths_n2))
ResultTimesteps(result) ==
    IF result.eval_length # None THEN Val(result.eval_length)
    ELSE PairsSum(Val(result.lengths_n2))

BothThresholdsMet ==
    /\ num_episodes_popped >= config.episodes_per_batch
    /\ num_timesteps_popped >= config.timesteps_per_batch

\* C1: the collecting loop pops a Result only while the current-task episode
\* count or the current-task timestep count is below its threshold, and the
\* master goes past the loop only when both counts have reached their thresholds.
C1_CollectExitsExactlyAtThresholds ==
    [][/\ JustPopped => ~BothThresholdsMet
       /\ (mpc = "collect" /\ mpc' # "collect" /\ ~JustPopped) => BothThresholdsMet
      ]_vars

\* an iteration with both thresholds positive ended after two accepted Results
C1_Witness ==
    /\ mpc = "publish"
    /\ iterations = 1
    /\ config.episodes_per_batch > 0
    /\ config.timesteps_per_batch > 0
    /\ Len(curr_task_results) = 2
    /\ BothThresholdsMet

IsStale(m) == curr_task_id # Some(m.task_id)
IsNoiseMsg(m) == m.result.eval_length = None
IsEvalMsg(m) == m.result.eval_length # None

CurrentNoisePopped == SelectSeq(popped, LAMBDA m : ~IsStale(m) /\ IsNoiseMsg(m))
CurrentEvalPopped == SelectSeq(popped, LAMBDA m : ~IsStale(m) /\ IsEvalMsg(m))

\* C2: in every iteration the list of Results that is aggregated is exactly the
\* noise Results popped under the current task id, and the eval returns and
\* lengths recorded are exactly those of the eval Results popped under the
\* current task id; a Result popped under another id is in none of them.
C2_OnlyCurrentTaskAggregated ==
    error = "" =>
        /\ curr_task_results =
               [i \in DOMAIN CurrentNoisePopped |-> CurrentNoisePopped[i].result]
        /\ eval_rets =
               [i \in DOMAIN CurrentEvalPopped |->
                   Val(CurrentEvalPopped[i].result.eval_return)]
        /\ eval_lens =
               [i \in DOMAIN CurrentEvalPopped |->
                   Val(CurrentEvalPopped[i].result.eval_length)]

\* after an iteration that aggregated a Result, a second delivery of a noise
\* Result of the previous task has been popped and left out
C2_Witness ==
    /\ iterations >= 1
    /\ tabular.EpisodesThisIter > 0
    /\ ndups >= 1
    /\ \E i \in DOMAIN popped : IsStale(popped[i]) /\ IsNoiseMsg(popped[i])
    /\ curr_task_results = << >>

\* C3: popping a Result whose task id is not the current one leaves the
\* per-task episode and timestep counters, the current-task result list, the
\* eval lists and the master's RunningStat unchanged, and adds the Result's
\* episodes and timesteps to episodes_so_far and timesteps_so_far.
C3_StalePopFrame ==
    [][(JustPopped /\ IsStale(Last(popped')) /\ error' = "") =>
          /\ UNCHANGED <<num_episodes_popped, num_timesteps_popped, curr_task_results,
                         eval_rets, eval_lens, ob_stat, ob_count_this_batch>>
          /\ episodes_so_far' = episodes_so_far + ResultEpisodes(Last(popped').result)
          /\ timesteps_so_far' =
                 timesteps_so_far + ResultTimesteps(Last(popped').result)
      ]_vars

\* the last Result popped was a stale noise Result carrying observation statistics
C3_Witness ==
    /\ popped # << >>
    /\ IsStale(Last(popped))
    /\ IsNoiseMsg(Last(popped))
    /\ Last(popped).result.ob_count > 0
    /\ episodes_so_far > num_episodes_popped
    /\ error = ""

StalePopped == {i \in DOMAIN popped : IsStale(popped[i])}
StaleNoisePopped == {i \in DOMAIN popped : IsStale(popped[i]) /\ IsNoiseMsg(popped[i])}

\* C4 as stated: the skipped count is the number of Results, eval or noise,
\* popped in this iteration under a task id other than the current one.
C4_SkippedCountsEveryStaleResult ==
    (mpc \in {"collect", "publish"} /\ curr_task_id # None) =>
        num_results_skipped = Cardinality(StalePopped)

\* C4: the skipped count is the number of noise Results popped in this
\* iteration under a task id other than the current one; stale eval Results
\* are not counted.
C4_SkippedCountsStaleNoiseResults ==
    (mpc \in {"collect", "publish"} /\ curr_task_id # None) =>
        num_results_skipped = Cardinality(StaleNoisePopped)

\* a stale noise Result has been popped and counted
C4_Witness ==
    /\ mpc = "collect"
    /\ StaleNoisePopped # {}
    /\ num_results_skipped >= 1

\* C5: when the master has left the collecting loop at least one current-task
\* noise Result has been collected, and no ratio divides by zero.
C5_BatchNeverEmpty ==
    /\ (mpc = "collect" /\ ~CollectMore) => curr_task_results # << >>
    /\ error # "ZeroDivisionError"

\* C6: an unknown return_proc_mode or episode_cutoff_mode ends the master
\* before it declares the experiment, publishes a Task or pops a Result.
C6_UnknownModeFailsAtStartup ==
    error = "NotImplementedError" =>
        /\ ~exp_declared
        /\ declared = << >>
        /\ npops = 0

\* the (message, pair, side) positions of the lengths the iteration accepted
AcceptedLengthAt ==
    UNION {{<<i, j, k>> : j \in DOMAIN Val(popped[i].result.lengths_n2), k \in 1..2} :
              i \in {n \in DOMAIN popped : ~IsStale(popped[n]) /\ IsNoiseMsg(popped[n])}}

AcceptedLength(p) == Val(popped[p[1]].result.lengths_n2)[p[2]][p[3]]

AcceptedAtLimit == {p \in AcceptedLengthAt : AcceptedLength(p) = Val(tslimit)}

\* int(ratio * limit)
RaisedLimit == (config.episode_cutoff_mode.arg2 * Val(tslimit)) \div CountUnit

IterationEnds == mpc = "collect" /\ mpc' = "publish"

TaskDeclared == Len(declared') = Len(declared) + 1

\* C7: under adaptive:start,threshold,ratio the first Task carries
\* timestep_limit = start and every Task carries the master's limit; when an
\* iteration ends the limit becomes int(ratio * limit) if the fraction of the
\* accepted episode lengths equal to the limit is >= threshold, and is
\* unchanged otherwise.
C7_AdaptiveTimestepLimit ==
    [][config.episode_cutoff_mode.kind = "adaptive" =>
          /\ (TaskDeclared /\ declared = << >>) =>
                 Last(declared').task.timestep_limit = Some(config.episode_cutoff_mode.arg0)
          /\ TaskDeclared => Last(declared').task.timestep_limit = tslimit
          /\ IterationEnds =>
                 tslimit' =
                     IF CountUnit * Cardinality(AcceptedAtLimit) >=
                            config.episode_cutoff_mode.arg1 * Cardinality(AcceptedLengthAt)
                     THEN Some(RaisedLimit)
                     ELSE tslimit
      ]_vars

\* half of the first iteration's lengths hit the limit 10, and the second Task
\* carries the limit 20
C7_Witness ==
    /\ Len(declared) = 2
    /\ declared[1].task.timestep_limit = Some(10)
    /\ declared[2].task.timestep_limit = Some(20)
    /\ tabular.EpisodesThisIter = 2
    /\ tabular.TimestepsThisIter = 11

\* C8: the master declares exactly one Task per iteration, before it pops any
\* Result of that iteration, and each declared id is the previous id + 1, so
\* no two iterations share a task id.
C8_OneTaskPerIterationIdsConsecutive ==
    /\ \A i \in DOMAIN declared : i > 1 => declared[i].id = declared[i - 1].id + 1
    /\ mpc = "collect" =>
           /\ Len(declared) = iterations + 1
           /\ curr_task_id = Some(Last(declared).id)
    /\ mpc = "publish" =>
           /\ Len(declared) = iterations
           /\ popped # << >> => iterations > 0
    /\ mpc = "startup" => declared = << >> /\ npops = 0

\* a second iteration has declared its Task and popped a Result
C8_Witness ==
    /\ mpc = "collect"
    /\ iterations = 1
    /\ Len(declared) = 2
    /\ popped # << >>

\* the message a push has just added to the result queue
AddedMsg ==
    CHOOSE m \in BagToSet(results') : CopiesIn(m, results') = CopiesIn(m, results) + 1

JustPushed == npushes' = npushes + 1

LengthsWithin(result, limit) ==
    \/ limit = None
    \/ result.lengths_n2 = None
    \/ \A j \in DOMAIN Val(result.lengths_n2) :
          /\ Val(result.lengths_n2)[j][1] <= Val(limit)
          /\ Val(result.lengths_n2)[j][2] <= Val(limit)

\* C9: a worker that has fetched a Task keeps its task id and task data until it
\* pushes; the Result it pushes is tagged with the id it fetched, and that id and
\* the task data are those of one declared Task, whose timestep limit bounds the
\* lengths of a noise Result.
C9_ResultTaggedWithFetchedTask ==
    [][/\ \A w \in Workers :
             /\ (wpc[w] = "fetch" /\ wpc'[w] = "fetched") =>
                    /\ task_id'[w] = Some(Val(current_task).id)
                    /\ task_data'[w] = Some(Val(current_task).task)
             /\ wpc[w] = "fetched" =>
                    /\ task_id'[w] = task_id[w]
                    /\ task_data'[w] = task_data[w]
       /\ JustPushed =>
             \E w \in Workers :
                 /\ wpc[w] = "fetched"
                 /\ wpc'[w] = "fetch"
                 /\ AddedMsg.task_id = Val(task_id[w])
                 /\ AddedMsg.result.worker_id = worker_id[w]
                 /\ \E i \in DOMAIN declared :
                        declared[i] = [id |-> Val(task_id[w]), task |-> Val(task_data[w])]
                 /\ LengthsWithin(AddedMsg.result, Val(task_data[w]).timestep_limit)
      ]_vars

\* a Result was pushed under a task id older than the published one
C9_Witness ==
    /\ late_pushes > 0
    /\ \E m \in BagToSet(results) : m.task_id < Val(current_task).id

IsEvalVariant(result) ==
    /\ result.eval_return # None
    /\ result.eval_length # None
    /\ result.noise_inds_n = None
    /\ result.returns_n2 = None
    /\ result.signreturns_n2 = None
    /\ result.lengths_n2 = None
    /\ result.ob_sum = None
    /\ result.ob_sumsq = None
    /\ result.ob_count = None

IsNoiseVariant(result) ==
    /\ result.eval_return = None
    /\ result.eval_length = None
    /\ result.noise_inds_n # None
    /\ result.returns_n2 # None
    /\ result.signreturns_n2 # None
    /\ result.lengths_n2 # None

SeenResults == BagToSet(results) \cup Range(popped)

\* C10: every Result pushed is either an eval Result, with eval_return and
\* eval_length present and every noise field absent, or a noise Result, with
\* eval_return and eval_length absent; the master's assertions never fail.
C10_ResultIsOneOfTwoVariants ==
    /\ \A m \in SeenResults :
           IsEvalVariant(m.result) # IsNoiseVariant(m.result)
    /\ error # "AssertionError"

\* the master has popped an eval Result and a noise Result
C10_Witness ==
    /\ \E i \in DOMAIN popped : IsEvalVariant(popped[i].result)
    /\ \E i \in DOMAIN popped : IsNoiseVariant(popped[i].result)
    /\ error = ""

Sign(x) == IF x > 0 THEN 1 ELSE IF x < 0 THEN -1 ELSE 0

\* the number of antithetic pairs of a noise Result
NumPairs(result) == Len(Val(result.noise_inds_n))

IsPairOf(p, q) == Len(p) = 2 /\ Len(q) = 2

NoiseResultWellShaped(result) ==
    LET N == NumPairs(result) IN
    /\ N >= 1
    /\ Len(Val(result.returns_n2)) = N
    /\ Len(Val(result.signreturns_n2)) = N
    /\ Len(Val(result.lengths_n2)) = N
    /\ \A j \in 1..N :
          /\ IsPairOf(Val(result.returns_n2)[j], Val(result.signreturns_n2)[j])
          /\ Len(Val(result.lengths_n2)[j]) = 2
          /\ \A k \in 1..2 :
                /\ Val(result.signreturns_n2)[j][k] = Sign(Val(result.returns_n2)[j][k])
                /\ Val(result.lengths_n2)[j][k] >= 1

\* C11: for min_task_runtime 0 and above, every noise Result pushed holds N >= 1
\* pairs, with noise_inds of length N and returns, sign returns and lengths of
\* N aligned (pos, neg) pairs each; the master's shape assertion never fails,
\* and the accepted Results account for exactly 2N episodes each.
C11_NoiseResultHoldsWholePairs ==
    /\ \A m \in SeenResults : IsNoiseMsg(m) => NoiseResultWellShaped(m.result)
    /\ error # "AssertionError"
    /\ num_episodes_popped =
           2 * SumSeq([i \in DOMAIN curr_task_results |-> NumPairs(curr_task_results[i])])

\* the master has accepted a Result of two pairs from a worker that kept
\* rolling for min_task_runtime, and a Result of one pair
C11_Witness ==
    /\ config.min_task_runtime > 0
    /\ \E i \in DOMAIN curr_task_results : NumPairs(curr_task_results[i]) = 2
    /\ \E i \in DOMAIN curr_task_results : NumPairs(curr_task_results[i]) = 1
    /\ num_episodes_popped = 6

\* the entries of the table at positions i .. i + dim - 1 (counted from 0)
SubRange(i, dim) == [k \in 1 .. dim |-> noise[i + k]]

\* C12: for dim <= len(noise), sample_index returns an index i with
\* 0 <= i <= len(noise) - dim, and get(i, dim) is then the dim entries of the
\* table from position i on.
C12_SampledIndexFitsTable ==
    (call.fn = "sample_index" /\ call.args[1] <= Len(noise)) =>
        /\ call.out \in Nat
        /\ call.out <= Len(noise) - call.args[1]
        /\ Len(Get(call.out, call.args[1])) = call.args[1]
        /\ Get(call.out, call.args[1]) = SubRange(call.out, call.args[1])

\* the last index of a table of three entries was sampled for dim = 1
C12_Witness ==
    /\ call.fn = "sample_index"
    /\ Len(noise) = 3
    /\ call.args = <<1>>
    /\ call.out = 2

\* C13: get(index, dim) returns the dim entries from position index on, and
\* fails when index + dim exceeds the length of the table; it never returns a
\* slice shorter than dim.
C13_GetFailsPastTheEnd ==
    call.fn = "get" =>
        LET i == call.args[1]
            dim == call.args[2]
        IN  IF i + dim <= Len(noise)
            THEN call.out = SubRange(i, dim)
            ELSE call.out = "IndexError"

\* the weighted sum of all the vectors at once (0. when there is none)
GlobalWeightedSum(weights, vecs) ==
    IF weights = << >> THEN ZeroTotal
    ELSE [d \in DOMAIN vecs[1] |->
             SumSeq([j \in DOMAIN weights |-> weights[j] * vecs[j][d]])]

\* C14: for weights and vectors of equal length N and every batch_size >= 1,
\* batched_weighted_sum returns the global weighted sum of the vectors and the
\* count N, whatever the batch size.
C14_BatchedSumIsGlobalSum ==
    call.fn = "batched_weighted_sum" =>
        /\ call.out.total = GlobalWeightedSum(call.args[1], call.args[2])
        /\ call.out.num_items_summed = Len(call.args[1])

\* three items summed in batches of two: one full batch and a trailing one
C14_Witness ==
    /\ call.fn = "batched_weighted_sum"
    /\ Len(call.args[1]) = 3
    /\ call.args[3] = 2
    /\ call.args[1] = <<2, 1, -1>>
    /\ call.args[2][3] = <<1, -2>>
    /\ call.out.num_items_summed = 3

\* C15: compute_centered_ranks of an N x 2 array of more than one element gives
\* the 2N values the ranks 0..2N-1, each once, as r / (2N - 1) - 0.5; the
\* outputs lie in [-0.5, 0.5], sum to zero, and y_i < y_j whenever x_i < x_j.
C15_CenteredRanksOrderPreserving ==
    call.fn = "compute_centered_ranks" =>
        LET x == Ravel(call.args[1])
            y == Ravel(call.out.num)
            size == Len(x)
        IN  /\ Len(y) = size
            /\ call.out.den = 2 * (size - 1)
            /\ {y[i] : i \in DOMAIN y} = {2 * r - (size - 1) : r \in 0 .. (size - 1)}
            /\ \A i \in DOMAIN y : 2 * y[i] <= call.out.den /\ -2 * y[i] <= call.out.den
            /\ SumSeq(y) = 0
            /\ \A i, j \in DOMAIN x : x[i] < x[j] => y[i] < y[j]

\* a 2 x 2 array whose argsort is not its own inverse
C15_Witness ==
    /\ call.fn = "compute_centered_ranks"
    /\ call.args[1] = <<<<1, -1>>, <<0, 1>>>>
    /\ call.out.num[1][2] = -3
    /\ call.out.num[2][1] = -1
    /\ call.out.den = 6

OnePairDistinct(x) == Len(x) = 1 /\ x[1][1] # x[1][2]

\* C19 as stated: the centered ranks of one pair with returns [1.0, -1.0] are
\* [+0.25, -0.25] and the pair's weight is 0.5.
C19_OnePairScoresQuarter ==
    (call.fn = "compute_centered_ranks" /\ call.args[1] = <<<<1, -1>>>>) =>
        /\ 4 * call.out.num[1][1] = call.out.den
        /\ 4 * call.out.num[1][2] = -call.out.den
        /\ 2 * PairWeights(call.out)[1] = call.out.den

\* C19: the centered ranks of one pair of distinct returns are +0.5 for the
\* larger and -0.5 for the smaller, so the pair's weight pos - neg is 1.0 when
\* the positive rollout returned more ([1.0, -1.0]) and -1.0 when it returned less.
C19_OnePairScoresHalf ==
    (call.fn = "compute_centered_ranks" /\ OnePairDistinct(call.args[1])) =>
        LET x == call.args[1][1]
            up == IF x[1] > x[2] THEN 1 ELSE -1
        IN  /\ 2 * call.out.num[1][1] = up * call.out.den
            /\ 2 * call.out.num[1][2] = -up * call.out.den
            /\ PairWeights(call.out)[1] = up * call.out.den

\* compute_centered_ranks was called on the one pair [1.0, -1.0]
C19_Witness ==
    /\ call.fn = "compute_centered_ranks"
    /\ call.args[1] = <<<<1, -1>>>>
    /\ call.out = [num |-> <<<<1, -1>>>>, den |-> 2]

\* the count of a worker's per-task RunningStat when its Result was pushed
\* (line 380: ob_count = task_ob_stat.count)
WorkerStatCounts == {m.result.ob_count : m \in {n \in SeenResults : IsNoiseMsg(n)}}

ReachesSnapshot ==
    /\ mpc = "collect"
    /\ mpc' # "collect"
    /\ ~JustPopped
    /\ error' \notin {"ZeroDivisionError", "NotImplementedError"}

IterationDue ==
    /\ config.snapshot_freq # 0
    /\ \E q \in 0 .. Val(curr_task_id) : q * config.snapshot_freq = Val(curr_task_id)

IterationName ==
    [iter |-> Val(curr_task_id),
     rew  |-> IF CurrentEvalPopped = << >> THEN None
              ELSE Some(IntOfQuotient(SumSeq(eval_rets), Len(eval_rets)))]

\* C17: at the end of an iteration a snapshot is saved exactly when
\* snapshot_freq != 0 and the task id is a multiple of snapshot_freq; when the
\* snapshot's name exists already the master stops with an assertion error
\* and saves nothing; no other step saves, and no name is ever removed or
\* saved twice.
C17_SnapshotExactlyWhenDue ==
    [][/\ ReachesSnapshot =>
             IF IterationDue /\ IterationName \in files
             THEN error' = "AssertionError" /\ saved' = saved /\ files' = files
             ELSE IF IterationDue
             THEN /\ saved' = Append(saved, IterationName)
                  /\ files' = files \cup {IterationName}
                  /\ error' = ""
             ELSE saved' = saved /\ files' = files /\ error' = ""
       /\ ~ReachesSnapshot => (saved' = saved /\ files' = files)
      ]_vars

\* the snapshot of task 0 was saved, and the iteration of task 1 ended without one
C17_Witness ==
    /\ config.snapshot_freq = 2
    /\ iterations = 2
    /\ Len(saved) = 1
    /\ saved[1].iter = 0
    /\ files = {saved[1]}

\* the batch is the one Result of one pair with returns [[1.0, -1.0]] and
\* lengths [[10, 10]]
OnePairBatch ==
    /\ Len(curr_task_results) = 1
    /\ Val(curr_task_results[1].returns_n2) = <<<<1, -1>>>>
    /\ Val(curr_task_results[1].lengths_n2) = <<<<10, 10>>>>

\* the noise vector at the index the batch's Result reports
ReportedNoise == SubRange(Val(curr_task_results[1].noise_inds_n)[1], NumParams)

IsPositiveMultiple(num, v) ==
    \E k \in 1 .. 4 : num = [d \in DOMAIN v |-> k * v[d]]

\* C18: with episodes_per_batch = 2, timesteps_per_batch = 0, l2coeff = 0 and
\* centered ranks the master pops no Result after the first accepted noise
\* Result; when that Result holds the one pair with returns [[1.0, -1.0]] and
\* lengths [[10, 10]], the gradient computed is a positive multiple of the
\* noise vector at the reported index, and the optimizer is handed its negation.
C18_GradientAlongReportedNoise ==
    [][/\ JustPopped => curr_task_results = << >>
       /\ (IterationEnds /\ OnePairBatch) =>
             /\ g'.den > 0
             /\ IsPositiveMultiple(g'.num, ReportedNoise)
             /\ step'.den > 0
             /\ \A d \in 1 .. NumParams :
                   step'.num[d] * g'.den = -(g'.num[d] * step'.den)
      ]_vars

\* the iteration has ended on that batch with g = noise / 2
C18_Witness ==
    /\ mpc = "publish"
    /\ iterations = 1
    /\ OnePairBatch
    /\ config.l2coeff = 0
    /\ g = [num |-> <<2, -4>>, den |-> 4]
    /\ noise = <<1, -2>>

PositiveThresholds == config.episodes_per_batch > 0 /\ config.timesteps_per_batch > 0

\* a popped Result that is an eval Result or belongs to another task
EvalOrStalePopped == JustPopped /\ (IsEvalMsg(Last(popped')) \/ IsStale(Last(popped')))

============================================================================
